---- MODULE Spec2Model ----
(***************************************************************************)
(* KRK endgame tablebase generation (TablebaseGenerator of                 *)
(* tablebase_generator_fixed.py) as a state machine.                       *)
(*                                                                         *)
(* The board is the chess.Board of the python-chess library reduced to     *)
(* the three pieces of the endgame: the squares of the white king, the     *)
(* white rook and the black king, the side to move, the halfmove clock     *)
(* and the fullmove number.  A FEN string is the tuple of exactly these    *)
(* fields (castling and en passant are always "-").  The board edge is a   *)
(* bound of the model: the program plays on 8 x 8.                         *)
(***************************************************************************)
EXTENDS Integers, Sequences, FiniteSets, TLC

VARIABLES
    \* the generator program (tablebase_generator_fixed.py)
    tablebase, pc, idx, current_dtm, positions_found_last_iteration,
    \* the artifact krk_tablebase_fixed.pkl, the store of the generator that
    \* test_specific_positions loads it into, the place where a
    \* KeyboardInterrupt ended the program, what a second process read
    file, test_tablebase, interrupt, reader,
    \* ChessEndgameSolver (chess_integrated_solver.py)
    gui_board, move_stack, setup_mode, auto_play, selected_piece,
    \* TablebaseGenerator (tablebase_generator.py): the sets of
    \* generate_krk_tablebase and _backward_induction, and the order in which
    \* this run of the interpreter iterates over its sets of positions
    checkmates, stalemates, known_positions, current_wave, next_wave, scan_order,
    \* ChessEngine (chess_engine.py): self.board, the move stack of the board
    \* (each move with the board it was pushed on), self.move_history, and
    \* the last call of the engine with its arguments and its return value
    engine_board, engine_stack, move_history, last_call,
    \* ChessGUI (chess_UI.py)
    selected_square, legal_moves

vars == <<tablebase, pc, idx, current_dtm, positions_found_last_iteration,
          file, test_tablebase, interrupt, reader,
          gui_board, move_stack, setup_mode, auto_play, selected_piece,
          checkmates, stalemates, known_positions, current_wave, next_wave,
          scan_order,
          engine_board, engine_stack, move_history, last_call,
          selected_square, legal_moves>>

\* The sets of the wave induction.
waveVars ==
    <<checkmates, stalemates, known_positions, current_wave, next_wave,
      scan_order>>

\* ChessEngine's fields and ChessGUI's.
playVars ==
    <<engine_board, engine_stack, move_history, last_call,
      selected_square, legal_moves>>

\* ChessEndgameSolver's fields.
solverVars == <<gui_board, move_stack, setup_mode, auto_play, selected_piece>>

\* What generate_krk_tablebase does not touch.
outsideGeneration ==
    <<file, test_tablebase, interrupt, reader,
      gui_board, move_stack, setup_mode, auto_play, selected_piece,
      waveVars, playVars>>

----------------------------------------------------------------------------
(* Bounds and program constants *)

\* Edge of the board (8 in the program: range(64), divmod(sq, 8)).
BoardSize == 3

\* Number of writes in which the bytes of pickle.dump reach the file.
WriteChunks == 2

\* The iteration cap of the induction loop.
MaxDtm == 50

\* The value 'DRAW' of an entry (an integer here so that it compares with a dtm).
DRAW == -1

\* float('inf'), the initial best_dtm.
INF == 1000000

\* The square of a piece that has been captured (chess.Board.king() is None).
NoSquare == -1

\* None, as the best move of an entry.
None == <<>>

\* None, as the dtm query returns for a key that is not in the store (an
\* integer here so that it compares with a dtm).
NoDtm == -2

WHITE == "w"
BLACK == "b"

NumSquares == BoardSize * BoardSize
Squares == 0 .. (NumSquares - 1)

----------------------------------------------------------------------------
(* Board primitives *)

Abs(x) == IF x < 0 THEN -x ELSE x

\* divmod(sq, 8)
Rank(s) == s \div BoardSize
File(s) == s % BoardSize

Opponent(color) == IF color = WHITE THEN BLACK ELSE WHITE

\* abs(wk_rank - bk_rank) <= 1 and abs(wk_file - bk_file) <= 1
KingsAdjacent(a, b) ==
    Abs(Rank(a) - Rank(b)) <= 1 /\ Abs(File(a) - File(b)) <= 1

\* BB_KING_ATTACKS: the neighbours of a square.
KingAttacks(k) == {s \in Squares \ {k} : KingsAdjacent(k, s)}

\* The squares strictly between two squares of one rank or one file.
Between(a, b) ==
    {s \in Squares :
        \/ /\ Rank(a) = Rank(b) /\ Rank(s) = Rank(a)
           /\ \/ File(a) < File(s) /\ File(s) < File(b)
              \/ File(b) < File(s) /\ File(s) < File(a)
        \/ /\ File(a) = File(b) /\ File(s) = File(a)
           /\ \/ Rank(a) < Rank(s) /\ Rank(s) < Rank(b)
              \/ Rank(b) < Rank(s) /\ Rank(s) < Rank(a)}

\* A rook that also attacks its diagonal neighbours.
RookAttacksDiagonalNeighbours(r, occupied) ==
    {s \in Squares \ {r} :
        \/ (Rank(s) = Rank(r) \/ File(s) = File(r)) /\ Between(r, s) \cap occupied = {}
        \/ KingsAdjacent(r, s)}

\* Sliding attacks of a rook, up to and including the first occupied square.
RookAttacks(r, occupied) ==
    {s \in Squares \ {r} :
        /\ Rank(s) = Rank(r) \/ File(s) = File(r)
        /\ Between(r, s) \cap occupied = {}}

----------------------------------------------------------------------------
(* chess.Board *)

\* chess.Board(fen=None), three set_piece_at and board.turn = turn.
NewBoard(wk, wr, bk, turn) ==
    [wk |-> wk, wr |-> wr, bk |-> bk, turn |-> turn,
     halfmove_clock |-> 0, fullmove_number |-> 1]

\* board.fen(): placement, side to move, halfmove clock, fullmove number.
Fen(board) ==
    <<board.wk, board.wr, board.bk, board.turn,
      board.halfmove_clock, board.fullmove_number>>

\* chess.Board(fen)
BoardOf(fen) ==
    [wk |-> fen[1], wr |-> fen[2], bk |-> fen[3], turn |-> fen[4],
     halfmove_clock |-> fen[5], fullmove_number |-> fen[6]]

Occupied(board) == {board.wk, board.wr, board.bk} \ {NoSquare}

King(board, color) == IF color = WHITE THEN board.wk ELSE board.bk

\* board.is_attacked_by(color, square)
IsAttackedBy(board, color, square) ==
    IF color = WHITE
    THEN \/ board.wk # NoSquare /\ square \in KingAttacks(board.wk)
         \/ board.wr # NoSquare /\ square \in RookAttacks(board.wr, Occupied(board))
    ELSE board.bk # NoSquare /\ square \in KingAttacks(board.bk)

\* board.is_check(): the king of the side to move is attacked.
IsCheck(board) ==
    /\ King(board, board.turn) # NoSquare
    /\ IsAttackedBy(board, Opponent(board.turn), King(board, board.turn))

\* Where a piece standing on q is after the move: moved, captured or left alone.
MovedSquare(q, move) ==
    IF q = NoSquare THEN NoSquare
    ELSE IF q = move[1] THEN move[2]
    ELSE IF q = move[2] THEN NoSquare
    ELSE q

\* The halfmove clock after a move: reset by a capture, otherwise one more.
HalfmoveAfterReset(board, move) == 0

HalfmoveAfter(board, move) ==
    IF move[2] \in Occupied(board) THEN 0 ELSE board.halfmove_clock + 1

\* board.push(move)
Push(board, move) ==
    [wk |-> MovedSquare(board.wk, move),
     wr |-> MovedSquare(board.wr, move),
     bk |-> MovedSquare(board.bk, move),
     turn |-> Opponent(board.turn),
     halfmove_clock |-> HalfmoveAfter(board, move),
     fullmove_number |-> IF board.turn = BLACK
                         THEN board.fullmove_number + 1
                         ELSE board.fullmove_number]

\* Moves of the pieces of the side to move onto squares not held by an own
\* piece (the enemy king's square included: the library does not exclude it).
PseudoLegalMoves(board) ==
    IF board.turn = WHITE
    THEN {<<board.wk, t>> : t \in IF board.wk = NoSquare THEN {}
                                  ELSE KingAttacks(board.wk) \ {board.wr}}
         \cup
         {<<board.wr, t>> : t \in IF board.wr = NoSquare THEN {}
                                  ELSE RookAttacks(board.wr, Occupied(board)) \ {board.wk}}
    ELSE {<<board.bk, t>> : t \in IF board.bk = NoSquare THEN {}
                                  ELSE KingAttacks(board.bk)}

\* board.legal_moves as a set: the own king is not attacked after the move.
LegalMoves(board) ==
    {m \in PseudoLegalMoves(board) :
        LET after == Push(board, m)
            king  == King(after, board.turn)
        IN  king = NoSquare \/ ~IsAttackedBy(after, Opponent(board.turn), king)}

\* The i-th pair of squares in the library's generation order
\* (scan_reversed: from-square descending, then to-square descending).
MoveOfIndex(i) ==
    LET c == NumSquares * NumSquares - i
    IN  <<c \div NumSquares, c % NumSquares>>

\* board.legal_moves in iteration order.
LegalMoveSeq(board) ==
    LET legal == LegalMoves(board)
    IN  SelectSeq([i \in 1 .. NumSquares * NumSquares |-> MoveOfIndex(i)],
                  LAMBDA m : m \in legal)

\* move.uci(): file and rank of the source, file and rank of the destination.
Uci(move) ==
    <<File(move[1]), Rank(move[1]) + 1, File(move[2]), Rank(move[2]) + 1>>

\* chess.Move.from_uci
FromUci(uci) ==
    <<(uci[2] - 1) * BoardSize + uci[1], (uci[4] - 1) * BoardSize + uci[3]>>

\* board.is_checkmate()
IsCheckmateInCheckOnly(board) == IsCheck(board)

IsCheckmate(board) == IsCheck(board) /\ LegalMoves(board) = {}

\* board.is_stalemate()
IsStalemateNoMoves(board) == LegalMoves(board) = {}

IsStalemate(board) == ~IsCheck(board) /\ LegalMoves(board) = {}

----------------------------------------------------------------------------
(* TablebaseGenerator._generate_all_positions *)

\* The tuple the three nested loops and the turn loop reach at step i
\* (wk outermost, then wr, then bk, then WHITE before BLACK).
CandidateOfIndex(i) ==
    LET c == i - 1
    IN  [wk   |-> c \div (2 * NumSquares * NumSquares),
         wr   |-> (c \div (2 * NumSquares)) % NumSquares,
         bk   |-> (c \div 2) % NumSquares,
         turn |-> IF c % 2 = 0 THEN WHITE ELSE BLACK]

\* An enumerator that does not skip adjacent kings.
IsEnumeratedAdjacentKings(t) ==
    /\ ~(t.wk = t.wr \/ t.wk = t.bk \/ t.wr = t.bk)
    /\ t.turn = WHITE =>
          ~IsAttackedBy(NewBoard(t.wk, t.wr, t.bk, t.turn), BLACK, t.wk)

\* The tests that let a tuple through to positions.append.
IsEnumerated(t) ==
    /\ ~(t.wk = t.wr \/ t.wk = t.bk \/ t.wr = t.bk)
    /\ ~KingsAdjacent(t.wk, t.bk)
    /\ t.turn = WHITE =>
          ~IsAttackedBy(NewBoard(t.wk, t.wr, t.bk, t.turn), BLACK, t.wk)

generate_all_positions ==
    LET candidates == [i \in 1 .. 2 * NumSquares * NumSquares * NumSquares
                          |-> CandidateOfIndex(i)]
        kept == SelectSeq(candidates, IsEnumerated)
    IN  [i \in 1 .. Len(kept) |->
            Fen(NewBoard(kept[i].wk, kept[i].wr, kept[i].bk, kept[i].turn))]

all_positions == generate_all_positions

NumPositions == Len(all_positions)

----------------------------------------------------------------------------
(* ChessEngine.generate_all_krk_positions *)

\* The tests that let a tuple through to positions.append: no overlap, kings
\* not adjacent, not "black is in check when it's white's turn", not "white
\* is in check when it's black's turn".
IsEnumeratedKrk(t) ==
    /\ ~(t.wk = t.wr \/ t.wk = t.bk \/ t.wr = t.bk)
    /\ ~KingsAdjacent(t.wk, t.bk)
    /\ ~(t.turn = WHITE
           /\ IsAttackedBy(NewBoard(t.wk, t.wr, t.bk, t.turn), WHITE, t.bk))
    /\ ~(t.turn = BLACK
           /\ IsAttackedBy(NewBoard(t.wk, t.wr, t.bk, t.turn), BLACK, t.wk))

generate_all_krk_positions ==
    LET candidates == [i \in 1 .. 2 * NumSquares * NumSquares * NumSquares
                          |-> CandidateOfIndex(i)]
        kept == SelectSeq(candidates, IsEnumeratedKrk)
    IN  [i \in 1 .. Len(kept) |->
            Fen(NewBoard(kept[i].wk, kept[i].wr, kept[i].bk, kept[i].turn))]

----------------------------------------------------------------------------
(* The store: self.tablebase, FEN -> (dtm, best_move) *)

EmptyStore == [k \in {} |-> <<DRAW, None>>]

\* self.tablebase[fen] = entry
Put(store, fen, entry) == (fen :> entry) @@ store

----------------------------------------------------------------------------
(* TablebaseGenerator._backward_induction_fixed, the body of the scan *)

\* White to move: the loop over board.legal_moves that keeps the first move
\* into a stored successor of smallest dtm.
RECURSIVE WhiteBest(_, _, _, _, _)
WhiteBest(store, board, moves, i, best) ==
    IF i > Len(moves) THEN best
    ELSE LET next_fen == Fen(Push(board, moves[i]))
             better   == /\ next_fen \in DOMAIN store
                         /\ store[next_fen][1] # DRAW
                         /\ store[next_fen][1] < best.best_dtm
         IN  WhiteBest(store, board, moves, i + 1,
                 IF better
                 THEN [best_dtm |-> store[next_fen][1], best_move |-> Uci(moves[i])]
                 ELSE best)

\* Black to move, a variant that skips a successor it does not know.
RECURSIVE BlackWorstSkipUnknown(_, _, _, _, _)
BlackWorstSkipUnknown(store, board, moves, i, worst_dtm) ==
    IF i > Len(moves) THEN [all_moves_lose |-> TRUE, worst_dtm |-> worst_dtm]
    ELSE LET next_fen == Fen(Push(board, moves[i]))
         IN  IF next_fen \notin DOMAIN store
             THEN BlackWorstSkipUnknown(store, board, moves, i + 1, worst_dtm)
             ELSE IF store[next_fen][1] = DRAW
             THEN [all_moves_lose |-> FALSE, worst_dtm |-> worst_dtm]
             ELSE BlackWorstSkipUnknown(store, board, moves, i + 1,
                      IF store[next_fen][1] > worst_dtm
                      THEN store[next_fen][1] ELSE worst_dtm)

\* Black to move: the loop that stops at the first successor that is unknown
\* or drawn and otherwise tracks the largest successor dtm.
RECURSIVE BlackWorst(_, _, _, _, _)
BlackWorst(store, board, moves, i, worst_dtm) ==
    IF i > Len(moves) THEN [all_moves_lose |-> TRUE, worst_dtm |-> worst_dtm]
    ELSE LET next_fen == Fen(Push(board, moves[i]))
         IN  IF next_fen \notin DOMAIN store
             THEN [all_moves_lose |-> FALSE, worst_dtm |-> worst_dtm]
             ELSE IF store[next_fen][1] = DRAW
             THEN [all_moves_lose |-> FALSE, worst_dtm |-> worst_dtm]
             ELSE BlackWorst(store, board, moves, i + 1,
                      IF store[next_fen][1] > worst_dtm
                      THEN store[next_fen][1] ELSE worst_dtm)

\* Black to move: the first move into a successor of dtm worst_dtm.
RECURSIVE BestDefense(_, _, _, _, _)
BestDefense(store, board, moves, i, worst_dtm) ==
    IF i > Len(moves) THEN None
    ELSE LET next_fen == Fen(Push(board, moves[i]))
         IN  IF next_fen \in DOMAIN store /\ store[next_fen][1] = worst_dtm
             THEN Uci(moves[i])
             ELSE BestDefense(store, board, moves, i + 1, worst_dtm)

\* One iteration of "for fen in all_positions" of a pass: the store after it.
ScanOne(store, fen, dtm) ==
    IF fen \in DOMAIN store THEN store
    ELSE LET board == BoardOf(fen)
             moves == LegalMoveSeq(board)
         IN  IF board.turn = WHITE
             THEN LET best == WhiteBest(store, board, moves, 1,
                                  [best_dtm |-> INF, best_move |-> None])
                  IN  IF best.best_move # None /\ best.best_dtm = dtm - 1
                      THEN Put(store, fen, <<dtm, best.best_move>>)
                      ELSE store
             ELSE IF Len(moves) = 0 THEN store
             ELSE LET r == BlackWorst(store, board, moves, 1, 0)
                  IN  IF r.all_moves_lose /\ r.worst_dtm = dtm - 1
                      THEN Put(store, fen,
                               <<dtm, BestDefense(store, board, moves, 1, r.worst_dtm)>>)
                      ELSE store

\* One iteration of the loop that marks the remaining positions as draws.
FillOneNothing(store, fen) == store

\* The final loop without its "if fen not in self.tablebase" test.
FillOneOverwrite(store, fen) == Put(store, fen, <<DRAW, None>>)

FillOne(store, fen) ==
    IF fen \notin DOMAIN store THEN Put(store, fen, <<DRAW, None>>) ELSE store

----------------------------------------------------------------------------
(* The artifact krk_tablebase_fixed.pkl and pickle *)

\* No file at the artifact path.  A file is its bytes (data, a sequence of
\* pickle opcodes with their arguments) and, for the properties only, the
\* program that wrote it: the bytes carry no version tag and no writer.
Missing == [exists |-> FALSE, writer |-> "none", data |-> <<>>]

\* pickle of a dtm: the string 'DRAW' or an integer.
EncodeValue(v) == IF v = DRAW THEN <<"BINUNICODE", "DRAW">> ELSE <<"BININT", v>>

DecodeValue(t) == IF t[1] = "BINUNICODE" THEN DRAW ELSE t[2]

\* pickle of a best move: None or the uci string.
EncodeMove(mv) == IF mv = None THEN <<"NONE">> ELSE <<"BINUNICODE">> \o mv

DecodeMove(t) == IF t[1] = "NONE" THEN None ELSE Tail(t)

\* pickle.dump(self.tablebase, f): protocol header, one item per entry of
\* the dict (key, value, move), STOP.  The order of the items is immaterial
\* to the dict that load builds; the list order of the enumerator is used.
PickleDump(store) ==
    LET InStore(fen) == fen \in DOMAIN store
        keys == SelectSeq(all_positions, InStore)
    IN  <<<<"PROTO", 4>>>>
        \o [i \in 1 .. Len(keys) |->
               <<"SETITEM", keys[i],
                 EncodeValue(store[keys[i]][1]), EncodeMove(store[keys[i]][2])>>]
        \o <<<<"STOP">>>>

\* pickle.load succeeds: the stream begins with the header and ends with
\* STOP (a truncated stream raises EOFError or UnpicklingError).
CanUnpickle(data) ==
    /\ Len(data) >= 2
    /\ data[1] = <<"PROTO", 4>>
    /\ data[Len(data)] = <<"STOP">>

\* The dict built from the items data[lo .. hi]; a later item of a key
\* replaces an earlier one.
RECURSIVE LoadItems(_, _, _)
LoadItems(data, lo, hi) ==
    IF lo > hi THEN EmptyStore
    ELSE IF lo = hi
    THEN (data[lo][2] :> <<DecodeValue(data[lo][3]), DecodeMove(data[lo][4])>>)
    ELSE LET mid == (lo + hi) \div 2
         IN  LoadItems(data, mid + 1, hi) @@ LoadItems(data, lo, mid)

\* A load that loses the last item of the stream.
PickleLoadDropsLast(data) == LoadItems(data, 2, Len(data) - 2)

\* pickle.load(f) of a stream that can be unpickled.
PickleLoad(data) == LoadItems(data, 2, Len(data) - 1)

\* The length of the file after the k-th of the WriteChunks writes of a dump.
ChunkEnd(full, k) == (k * Len(full)) \div WriteChunks

----------------------------------------------------------------------------
(* main of tablebase_generator_fixed.py as a state machine: the loops of     *)
(* generate_krk_tablebase one action per iteration, then save_tablebase and *)
(* test_specific_positions                                                  *)

\* setup_default_position: board.clear(), white king e1, rook a1, black king
\* e8 (the middle file of the first and of the last rank), White to move.
DefaultBoard ==
    NewBoard(BoardSize \div 2, 0, NumSquares - BoardSize + BoardSize \div 2, WHITE)

\* The fields of a ChessEndgameSolver that has not been started.
SolverIdle ==
    /\ gui_board = DefaultBoard
    /\ move_stack = <<>>
    /\ setup_mode = TRUE
    /\ auto_play = FALSE
    /\ selected_piece = "none"

\* chess.Board(fen=None): no piece, White to move.
EmptyBoard == NewBoard(NoSquare, NoSquare, NoSquare, WHITE)

\* No wave induction is running.
WaveIdle ==
    /\ checkmates = {}
    /\ stalemates = {}
    /\ known_positions = {}
    /\ current_wave = {}
    /\ next_wave = {}
    /\ scan_order = "none"

\* ChessEngine.__init__ (an empty board, no history), no call made yet, and
\* a ChessGUI with nothing selected.
EngineIdle ==
    /\ engine_board = EmptyBoard
    /\ engine_stack = <<>>
    /\ move_history = <<>>
    /\ last_call = [op |-> "__init__", args |-> <<>>, value |-> None]
    /\ selected_square = None
    /\ legal_moves = {}

\* main has found no artifact and is about to call generate_krk_tablebase.
Init ==
    /\ tablebase = EmptyStore
    /\ pc = "checkmates"
    /\ idx = 1
    /\ current_dtm = 0
    /\ positions_found_last_iteration = TRUE
    /\ file = Missing
    /\ test_tablebase = EmptyStore
    /\ interrupt = "none"
    /\ reader = "idle"
    /\ SolverIdle
    /\ WaveIdle
    /\ EngineIdle

\* Advance a "for fen in all_positions" loop, entering phase next after the last.
Advance(next) ==
    IF idx = NumPositions
    THEN idx' = 1 /\ pc' = next
    ELSE idx' = idx + 1 /\ pc' = pc

\* Step 2 with checkmates stored as mate in one.
FindCheckmateDepthOne ==
    /\ pc = "checkmates"
    /\ tablebase' = IF IsCheckmate(BoardOf(all_positions[idx]))
                    THEN Put(tablebase, all_positions[idx], <<1, None>>)
                    ELSE tablebase
    /\ Advance("stalemates")
    /\ UNCHANGED <<current_dtm, positions_found_last_iteration>>
    /\ UNCHANGED outsideGeneration

\* Step 2: if board.is_checkmate(): self.tablebase[fen] = (0, None)
FindCheckmate ==
    /\ pc = "checkmates"
    /\ tablebase' = IF IsCheckmate(BoardOf(all_positions[idx]))
                    THEN Put(tablebase, all_positions[idx], <<0, None>>)
                    ELSE tablebase
    /\ Advance("stalemates")
    /\ UNCHANGED <<current_dtm, positions_found_last_iteration>>
    /\ UNCHANGED outsideGeneration

\* Step 3: if board.is_stalemate(): self.tablebase[fen] = ('DRAW', None)
FindStalemate ==
    /\ pc = "stalemates"
    /\ tablebase' = IF IsStalemate(BoardOf(all_positions[idx]))
                    THEN Put(tablebase, all_positions[idx], <<DRAW, None>>)
                    ELSE tablebase
    /\ Advance("while")
    /\ UNCHANGED <<current_dtm, positions_found_last_iteration>>
    /\ UNCHANGED outsideGeneration

\* A pass that begins without "positions_found_last_iteration = False".
PassStartKeepsFlag ==
    /\ pc = "while"
    /\ positions_found_last_iteration /\ current_dtm < MaxDtm
    /\ current_dtm' = current_dtm + 1
    /\ pc' = "scan"
    /\ idx' = 1
    /\ UNCHANGED <<tablebase, positions_found_last_iteration>>
    /\ UNCHANGED outsideGeneration

\* while positions_found_last_iteration and current_dtm < 50: begin a pass.
PassStart ==
    /\ pc = "while"
    /\ positions_found_last_iteration /\ current_dtm < MaxDtm
    /\ positions_found_last_iteration' = FALSE
    /\ current_dtm' = current_dtm + 1
    /\ pc' = "scan"
    /\ idx' = 1
    /\ UNCHANGED tablebase
    /\ UNCHANGED outsideGeneration

\* The body of the pass for one position.
ScanPosition ==
    /\ pc = "scan"
    /\ tablebase' = ScanOne(tablebase, all_positions[idx], current_dtm)
    /\ positions_found_last_iteration' =
          (positions_found_last_iteration \/ tablebase' # tablebase)
    /\ Advance("while")
    /\ UNCHANGED current_dtm
    /\ UNCHANGED outsideGeneration

\* The while condition fails: the loop is left.
LoopExit ==
    /\ pc = "while"
    /\ ~(positions_found_last_iteration /\ current_dtm < MaxDtm)
    /\ pc' = "fill"
    /\ idx' = 1
    /\ UNCHANGED <<tablebase, current_dtm, positions_found_last_iteration>>
    /\ UNCHANGED outsideGeneration

\* Mark remaining positions as draws.
FillDraw ==
    /\ pc = "fill"
    /\ tablebase' = FillOne(tablebase, all_positions[idx])
    /\ Advance("done")
    /\ UNCHANGED <<current_dtm, positions_found_last_iteration>>
    /\ UNCHANGED outsideGeneration

\* What save_tablebase and test_specific_positions do not touch.
outsidePersistence ==
    <<tablebase, idx, current_dtm, positions_found_last_iteration,
      interrupt, reader, gui_board, move_stack, setup_mode, auto_play,
      selected_piece, waveVars, playVars>>

\* save_tablebase: open(filename, 'wb') creates the file, or empties it.
SaveOpen ==
    /\ pc = "done"
    /\ file' = [exists |-> TRUE, writer |-> "fixed", data |-> <<>>]
    /\ pc' = "dump"
    /\ UNCHANGED test_tablebase
    /\ UNCHANGED outsidePersistence

\* save_tablebase: pickle.dump, the next write of its bytes to the file.
SaveWrite ==
    /\ pc = "dump"
    /\ LET full == PickleDump(tablebase)
           k    == CHOOSE j \in 1 .. WriteChunks :
                       /\ ChunkEnd(full, j) > Len(file.data)
                       /\ \A i \in 1 .. j - 1 : ChunkEnd(full, i) <= Len(file.data)
       IN  /\ Len(file.data) < Len(full)
           /\ file' = [file EXCEPT !.data = SubSeq(full, 1, ChunkEnd(full, k))]
    /\ pc' = "dump"
    /\ UNCHANGED test_tablebase
    /\ UNCHANGED outsidePersistence

\* save_tablebase: the with block ends, the file is closed.
SaveClose ==
    /\ pc = "dump"
    /\ Len(file.data) = Len(PickleDump(tablebase))
    /\ pc' = "saved"
    /\ UNCHANGED <<file, test_tablebase>>
    /\ UNCHANGED outsidePersistence

\* test_specific_positions: a new TablebaseGenerator calls load_tablebase;
\* an exception of open or pickle.load is caught ("No existing tablebase
\* found") and leaves its store as it was.
TestLoad ==
    /\ pc \in {"saved", "test"}
    /\ IF file.exists /\ CanUnpickle(file.data)
       THEN test_tablebase' = PickleLoad(file.data) /\ pc' = "tested"
       ELSE test_tablebase' = test_tablebase /\ pc' = "load_failed"
    /\ UNCHANGED file
    /\ UNCHANGED outsidePersistence

Next ==
    \/ FindCheckmate
    \/ FindStalemate
    \/ PassStart
    \/ ScanPosition
    \/ LoopExit
    \/ FillDraw
    \/ SaveOpen
    \/ SaveWrite
    \/ SaveClose
    \/ TestLoad

Spec == Init /\ [][Next]_vars

TypeOK ==
    /\ pc \in {"main", "checkmates", "stalemates", "while", "scan", "fill", "done",
               "dump", "saved", "test", "tested", "load_failed", "exit", "solver",
               "engine", "gui", "wave_main", "wave_checkmates", "wave_stalemates",
               "wave_mark", "wave_while", "wave_for", "wave_fill", "wave_done",
               "wave_saved"}
    /\ idx \in 1 .. NumPositions
    /\ current_dtm \in 0 .. MaxDtm
    /\ positions_found_last_iteration \in BOOLEAN

----------------------------------------------------------------------------
(* Vocabulary of the properties *)

\* The keys the enumerator emits.
PositionSet == {all_positions[i] : i \in 1 .. NumPositions}

\* The key under which the enumerator stores the placement and side to move
\* of a board, whatever the board's move counters are.
CanonicalKey(board) == Fen(NewBoard(board.wk, board.wr, board.bk, board.turn))

\* The board has its three pieces.
ThreePieces(board) ==
    board.wk # NoSquare /\ board.wr # NoSquare /\ board.bk # NoSquare

Stored(fen) == fen \in DOMAIN tablebase
ValueOf(fen) == tablebase[fen][1]
MoveOf(fen) == tablebase[fen][2]
IsMateValue(v) == v # DRAW /\ v >= 0

\* The stored value of the position a move reaches is MATE(e) for some e.
ReachesStoredMate(board, m) ==
    LET k == CanonicalKey(Push(board, m))
    IN  Stored(k) /\ IsMateValue(ValueOf(k))

\* The stored value of the position a move reaches is DRAW.
ReachesStoredDraw(board, m) ==
    LET k == CanonicalKey(Push(board, m))
    IN  Stored(k) /\ ValueOf(k) = DRAW

\* The move delivers checkmate: the opponent is in check and has no move.
DeliversMate(board, m) ==
    LET after == Push(board, m)
    IN  ThreePieces(after) /\ IsCheck(after) /\ LegalMoves(after) = {}

\* Enumerated positions whose side to move has no legal move.
TerminalPositions == {fen \in PositionSet : LegalMoves(BoardOf(fen)) = {}}

\* Enumerated positions that are checkmate: no legal move, in check.
CheckmatePositions == {fen \in TerminalPositions : IsCheck(BoardOf(fen))}

\* Enumerated positions that are stalemate: no legal move, not in check.
StalematePositions == {fen \in TerminalPositions : ~IsCheck(BoardOf(fen))}

\* The entries in which a move is present iff the value is MATE(d), d > 0.
MoveIffPositiveMateEntries ==
    {<<DRAW, None>>, <<0, None>>}
    \cup {<<d, Uci(<<a, b>>)>> : d \in 1 .. MaxDtm, a \in Squares, b \in Squares}

\* Enumerated Black-to-move positions in which the king can take the rook.
RookCapturePositions ==
    {fen \in PositionSet :
        fen[4] = BLACK /\ <<fen[3], fen[2]>> \in LegalMoves(BoardOf(fen))}

\* Enumerated White-to-move positions with a move that delivers checkmate.
MateInOnePositions ==
    {fen \in PositionSet :
        fen[4] = WHITE /\ \E m \in LegalMoves(BoardOf(fen)) : DeliversMate(BoardOf(fen), m)}

----------------------------------------------------------------------------
(* Runs of main in their environment: an artifact that is already there,   *)
(* Ctrl+C, a second process that reads the artifact, a further run         *)

\* A mating move of a mate-in-one position.
MatingMove(fen) ==
    CHOOSE m \in LegalMoves(BoardOf(fen)) : DeliversMate(BoardOf(fen), m)

\* Black-to-move positions all of whose moves lead to a mate-in-one position.
MateInTwoPositions ==
    {fen \in PositionSet :
        /\ fen[4] = BLACK
        /\ LegalMoves(BoardOf(fen)) # {}
        /\ \A m \in LegalMoves(BoardOf(fen)) :
              CanonicalKey(Push(BoardOf(fen), m)) \in MateInOnePositions}

\* The store of an artifact of another version: the enumerated positions
\* under their enumerator keys, checkmates as MATE(0), mate-in-one positions
\* as MATE(1) with a mating move, the positions from which Black cannot avoid
\* them as MATE(2) with a move, the others as DRAW.
DepthTwoStore ==
    [fen \in PositionSet |->
        IF fen \in CheckmatePositions THEN <<0, None>>
        ELSE IF fen \in MateInOnePositions THEN <<1, Uci(MatingMove(fen))>>
        ELSE IF fen \in MateInTwoPositions
        THEN <<2, Uci(CHOOSE m \in LegalMoves(BoardOf(fen)) : TRUE)>>
        ELSE <<DRAW, None>>]

OtherVersionArtifact ==
    [exists |-> TRUE, writer |-> "other_version", data |-> PickleDump(DepthTwoStore)]

\* OptimizedTablebaseGenerator._is_near_mate: some move leads to a FEN that
\* is a key of the store.
is_near_mate(store, board) ==
    \E move \in LegalMoves(board) : Fen(Push(board, move)) \in DOMAIN store

\* OptimizedTablebaseGenerator._get_best_move_simple: the first legal move
\* that leads to a key of the store, else the first legal move.
get_best_move_simple(store, board) ==
    LET moves == LegalMoveSeq(board)
        Known(m) == Fen(Push(board, m)) \in DOMAIN store
        known == SelectSeq(moves, Known)
    IN  IF known # <<>> THEN Uci(known[1])
        ELSE IF moves # <<>> THEN Uci(moves[1]) ELSE None

\* Step 2/3 of generate_tablebase_simple: checkmates and stalemates.
OptimizedTerminals ==
    [fen \in {f \in PositionSet :
                 IsCheckmate(BoardOf(f)) \/ IsStalemate(BoardOf(f))} |->
        IF IsCheckmate(BoardOf(fen)) THEN <<0, None>> ELSE <<DRAW, None>>]

\* The positions the first iteration of _simple_backward_induction labels.
\* There is none (a FEN after a push has advanced counters and is no key),
\* so new_found is 0 and the loop breaks after this iteration.
OptimizedFirstIteration ==
    {fen \in PositionSet \ DOMAIN OptimizedTerminals :
        is_near_mate(OptimizedTerminals, BoardOf(fen))}

\* The store OptimizedTablebaseGenerator.generate_tablebase_simple builds
\* (its enumerator applies the tests of IsEnumerated).
generate_tablebase_simple ==
    [fen \in PositionSet |->
        IF fen \in DOMAIN OptimizedTerminals THEN OptimizedTerminals[fen]
        ELSE IF fen \in OptimizedFirstIteration
        THEN <<1, get_best_move_simple(OptimizedTerminals, BoardOf(fen))>>
        ELSE <<DRAW, None>>]

\* The file OptimizedTablebaseGenerator.save_tablebase leaves at the same
\* path, 'krk_tablebase_fixed.pkl'.
OptimizedArtifact ==
    [exists |-> TRUE, writer |-> "optimized",
     data |-> PickleDump(generate_tablebase_simple)]

\* What is at the artifact path when main starts.
StartArtifacts == {Missing, OptimizedArtifact, OtherVersionArtifact}

GenerationPhases == {"checkmates", "stalemates", "while", "scan", "fill"}

RunningPhases == GenerationPhases \cup {"main", "done", "dump", "saved", "test"}

BuildInit ==
    /\ tablebase = EmptyStore
    /\ pc = "main"
    /\ idx = 1
    /\ current_dtm = 0
    /\ positions_found_last_iteration = TRUE
    /\ file \in StartArtifacts
    /\ test_tablebase = EmptyStore
    /\ interrupt = "none"
    /\ reader = "idle"
    /\ SolverIdle
    /\ WaveIdle
    /\ EngineIdle

\* main: if os.path.exists('krk_tablebase_fixed.pkl') the artifact is only
\* tested, otherwise it is generated.
Main ==
    /\ pc = "main"
    /\ pc' = IF file.exists THEN "test" ELSE "checkmates"
    /\ UNCHANGED <<tablebase, idx, current_dtm, positions_found_last_iteration>>
    /\ UNCHANGED outsideGeneration

\* KeyboardInterrupt: raised wherever the program is, caught nowhere in main;
\* the program ends and leaves the file as it is.
Interrupt ==
    /\ pc \in RunningPhases
    /\ interrupt' = pc
    /\ pc' = "exit"
    /\ UNCHANGED <<tablebase, idx, current_dtm, positions_found_last_iteration,
                   file, test_tablebase, reader>>
    /\ UNCHANGED <<solverVars, waveVars, playVars>>

\* The program is run again.
Rerun ==
    /\ pc \in {"exit", "tested", "load_failed"}
    /\ tablebase' = EmptyStore
    /\ pc' = "main"
    /\ idx' = 1
    /\ current_dtm' = 0
    /\ positions_found_last_iteration' = TRUE
    /\ test_tablebase' = EmptyStore
    /\ interrupt' = "none"
    /\ UNCHANGED <<file, reader>>
    /\ UNCHANGED <<solverVars, waveVars, playVars>>

\* A second process runs generate_or_load while main runs: the file exists,
\* so it is opened and unpickled, which raises on a stream that is not whole.
ReaderLoad ==
    /\ reader = "idle"
    /\ file.exists
    /\ reader' = IF CanUnpickle(file.data) THEN "loaded" ELSE "error"
    /\ UNCHANGED <<tablebase, pc, idx, current_dtm, positions_found_last_iteration,
                   file, test_tablebase, interrupt>>
    /\ UNCHANGED <<solverVars, waveVars, playVars>>

BuildNext ==
    \/ Main
    \/ Next
    \/ Interrupt
    \/ Rerun
    \/ ReaderLoad

BuildSpec == BuildInit /\ [][BuildNext]_vars

----------------------------------------------------------------------------
(* ChessEndgameSolver: the window over a loaded store, one action per event *)
(* of the loop in run                                                       *)

outsideSolver ==
    <<tablebase, pc, idx, current_dtm, positions_found_last_iteration,
      file, test_tablebase, interrupt, reader, waveVars, playVars>>

\* TablebaseGenerator.query
query(store, fen) ==
    IF fen \in DOMAIN store THEN store[fen] ELSE <<NoDtm, None>>

\* board.remove_piece_at(square)
RemovePieceAt(b, square) ==
    [b EXCEPT !.wk = IF @ = square THEN NoSquare ELSE @,
              !.wr = IF @ = square THEN NoSquare ELSE @,
              !.bk = IF @ = square THEN NoSquare ELSE @]

\* The loop that removes the old piece of the selected type, then
\* board.set_piece_at(square, piece), which replaces what stands there.
PlaceSelected(b, piece, square) ==
    [RemovePieceAt(b, square) EXCEPT ![piece] = square]

\* validate_position: one white king, one white rook, one black king.
validate_position(b) ==
    b.wk # NoSquare /\ b.wr # NoSquare /\ b.bk # NoSquare

\* play_best_move returns True: the store has a best move for board.fen()
\* and the move is legal.
CanPlayBestMove(store, b) ==
    LET best_move == query(store, Fen(b))[2]
    IN  best_move # None /\ FromUci(best_move) \in LegalMoves(b)

\* The board after play_best_move has pushed the stored move.
BestMovePlayed(store, b) == Push(b, FromUci(query(store, Fen(b))[2]))

\* ChessEndgameSolver.__init__ when the artifact exists: the default position,
\* generate_or_load loads the file, setup mode.
SolverStart ==
    /\ pc \in {"main", "tested"}
    /\ file.exists
    /\ CanUnpickle(file.data)
    /\ tablebase' = PickleLoad(file.data)
    /\ pc' = "solver"
    /\ idx' = 1
    /\ current_dtm' = 0
    /\ positions_found_last_iteration' = TRUE
    /\ test_tablebase' = EmptyStore
    /\ gui_board' = DefaultBoard
    /\ move_stack' = <<>>
    /\ setup_mode' = TRUE
    /\ auto_play' = FALSE
    /\ selected_piece' = "none"
    /\ UNCHANGED <<file, interrupt, reader, waveVars, playVars>>

\* MOUSEBUTTONDOWN on a square, handle_click: in setup mode the selected
\* piece is moved there, or without a selection the square is emptied;
\* set_piece_at and remove_piece_at clear the move stack.
HandleClick ==
    /\ pc = "solver"
    /\ setup_mode
    /\ \E square \in Squares :
          gui_board' = IF selected_piece # "none"
                       THEN PlaceSelected(gui_board, selected_piece, square)
                       ELSE RemovePieceAt(gui_board, square)
    /\ move_stack' = <<>>
    /\ UNCHANGED <<setup_mode, auto_play, selected_piece>>
    /\ UNCHANGED outsideSolver

\* K_1, K_2, K_3 in setup mode.
SelectPiece ==
    /\ pc = "solver"
    /\ setup_mode
    /\ \E piece \in {"wk", "wr", "bk"} : selected_piece' = piece
    /\ UNCHANGED <<gui_board, move_stack, setup_mode, auto_play>>
    /\ UNCHANGED outsideSolver

\* K_t in setup mode.
ToggleTurn ==
    /\ pc = "solver"
    /\ setup_mode
    /\ gui_board' = [gui_board EXCEPT !.turn = Opponent(@)]
    /\ UNCHANGED <<move_stack, setup_mode, auto_play, selected_piece>>
    /\ UNCHANGED outsideSolver

\* K_SPACE: from setup mode into solve mode if the position validates; in
\* solve mode play_best_move.
Space ==
    /\ pc = "solver"
    /\ IF setup_mode
       THEN /\ setup_mode' = ~validate_position(gui_board)
            /\ UNCHANGED <<gui_board, move_stack>>
       ELSE /\ IF CanPlayBestMove(tablebase, gui_board)
               THEN /\ gui_board' = BestMovePlayed(tablebase, gui_board)
                    /\ move_stack' = Append(move_stack, gui_board)
               ELSE UNCHANGED <<gui_board, move_stack>>
            /\ UNCHANGED setup_mode
    /\ UNCHANGED <<auto_play, selected_piece>>
    /\ UNCHANGED outsideSolver

\* K_a in solve mode.
ToggleAutoPlay ==
    /\ pc = "solver"
    /\ ~setup_mode
    /\ auto_play' = ~auto_play
    /\ UNCHANGED <<gui_board, move_stack, setup_mode, selected_piece>>
    /\ UNCHANGED outsideSolver

\* An auto-play tick that remembers in the store a position it did not find.
AutoPlayTickCachesMiss ==
    /\ pc = "solver"
    /\ auto_play /\ ~setup_mode
    /\ IF CanPlayBestMove(tablebase, gui_board)
       THEN /\ gui_board' = BestMovePlayed(tablebase, gui_board)
            /\ move_stack' = Append(move_stack, gui_board)
            /\ UNCHANGED <<auto_play, tablebase>>
       ELSE /\ auto_play' = FALSE
            /\ tablebase' = Put(tablebase, Fen(gui_board), <<DRAW, None>>)
            /\ UNCHANGED <<gui_board, move_stack>>
    /\ UNCHANGED <<setup_mode, selected_piece>>
    /\ UNCHANGED <<pc, idx, current_dtm, positions_found_last_iteration,
                   file, test_tablebase, interrupt, reader, waveVars, playVars>>

\* The auto-play tick of the loop: play_best_move, and auto-play goes off
\* when it returns False.
AutoPlayTick ==
    /\ pc = "solver"
    /\ auto_play /\ ~setup_mode
    /\ IF CanPlayBestMove(tablebase, gui_board)
       THEN /\ gui_board' = BestMovePlayed(tablebase, gui_board)
            /\ move_stack' = Append(move_stack, gui_board)
            /\ UNCHANGED auto_play
       ELSE /\ auto_play' = FALSE
            /\ UNCHANGED <<gui_board, move_stack>>
    /\ UNCHANGED <<setup_mode, selected_piece>>
    /\ UNCHANGED outsideSolver

\* K_u in solve mode: board.pop() if a move has been played.
Undo ==
    /\ pc = "solver"
    /\ ~setup_mode
    /\ move_stack # <<>>
    /\ gui_board' = move_stack[Len(move_stack)]
    /\ move_stack' = SubSeq(move_stack, 1, Len(move_stack) - 1)
    /\ UNCHANGED <<setup_mode, auto_play, selected_piece>>
    /\ UNCHANGED outsideSolver

\* K_r: setup_default_position (board.clear() resets the counters and the
\* move stack), setup mode, auto-play off.
Reset ==
    /\ pc = "solver"
    /\ gui_board' = DefaultBoard
    /\ move_stack' = <<>>
    /\ setup_mode' = TRUE
    /\ auto_play' = FALSE
    /\ UNCHANGED selected_piece
    /\ UNCHANGED outsideSolver

\* K_s without "self.auto_play = False".
SetupModeKeepsAutoPlay ==
    /\ pc = "solver"
    /\ setup_mode' = TRUE
    /\ selected_piece' = "none"
    /\ UNCHANGED <<gui_board, move_stack, auto_play>>
    /\ UNCHANGED outsideSolver

\* K_s: setup mode, auto-play off, no piece selected; the board keeps its
\* counters and its move stack.
SetupMode ==
    /\ pc = "solver"
    /\ setup_mode' = TRUE
    /\ auto_play' = FALSE
    /\ selected_piece' = "none"
    /\ UNCHANGED <<gui_board, move_stack>>
    /\ UNCHANGED outsideSolver

\* Artifacts the solver can find: none yet (main of the generator writes
\* it first) or one written by another version.
SolveInit ==
    /\ tablebase = EmptyStore
    /\ pc = "main"
    /\ idx = 1
    /\ current_dtm = 0
    /\ positions_found_last_iteration = TRUE
    /\ file \in {Missing, OtherVersionArtifact}
    /\ test_tablebase = EmptyStore
    /\ interrupt = "none"
    /\ reader = "idle"
    /\ SolverIdle
    /\ WaveIdle
    /\ EngineIdle

SolveNext ==
    \/ Main
    \/ Next
    \/ SolverStart
    \/ HandleClick
    \/ SelectPiece
    \/ ToggleTurn
    \/ Space
    \/ ToggleAutoPlay
    \/ AutoPlayTick
    \/ Undo
    \/ Reset
    \/ SetupMode

SolveSpec == SolveInit /\ [][SolveNext]_vars

----------------------------------------------------------------------------
(* Properties of the generated store *)

\* No entry of value MATE(d) with d > 0 is ever stored: the key of a position
\* reached by push carries the advanced move counters and is never a key of
\* the store, so neither branch of the scan ever finds a stored successor.
NoPositiveMateStored ==
    \A fen \in DOMAIN tablebase : ValueOf(fen) = DRAW \/ ValueOf(fen) = 0

\* C1: after generation, every White-to-move entry of value MATE(d), d > 0,
\* stores a legal move, the position that move reaches is stored, and its
\* value is MATE(d - 1).
C1_WhiteMateEntrySound ==
    pc = "done" =>
        \A fen \in DOMAIN tablebase :
            (fen[4] = WHITE /\ IsMateValue(ValueOf(fen)) /\ ValueOf(fen) > 0) =>
                /\ MoveOf(fen) # None
                /\ FromUci(MoveOf(fen)) \in LegalMoves(BoardOf(fen))
                /\ LET k == CanonicalKey(Push(BoardOf(fen), FromUci(MoveOf(fen))))
                   IN  Stored(k) /\ ValueOf(k) = ValueOf(fen) - 1

\* C2: after generation, every Black-to-move entry of value MATE(d), d > 0,
\* stores a move into a successor of value MATE(d - 1), and every legal move
\* leads to a stored successor of value MATE(e) with e <= d - 1.
C2_BlackMateEntryLongestResistance ==
    pc = "done" =>
        \A fen \in DOMAIN tablebase :
            (fen[4] = BLACK /\ IsMateValue(ValueOf(fen)) /\ ValueOf(fen) > 0) =>
                /\ MoveOf(fen) # None
                /\ FromUci(MoveOf(fen)) \in LegalMoves(BoardOf(fen))
                /\ LET k == CanonicalKey(Push(BoardOf(fen), FromUci(MoveOf(fen))))
                   IN  Stored(k) /\ ValueOf(k) = ValueOf(fen) - 1
                /\ \A m \in LegalMoves(BoardOf(fen)) :
                      LET k == CanonicalKey(Push(BoardOf(fen), m))
                      IN  /\ Stored(k)
                          /\ IsMateValue(ValueOf(k))
                          /\ ValueOf(k) <= ValueOf(fen) - 1

\* C3: after generation, no legal move of a White-to-move position stored as
\* DRAW leads to a position whose stored value is MATE(e).
C3_WhiteDrawHasNoMateSuccessor ==
    pc = "done" =>
        \A fen \in DOMAIN tablebase :
            (fen[4] = WHITE /\ ValueOf(fen) = DRAW) =>
                \A m \in LegalMoves(BoardOf(fen)) :
                    ~ReachesStoredMate(BoardOf(fen), m)

\* C4 as stated: after generation, every Black-to-move position stored as
\* DRAW has a legal move that leads to a successor stored as DRAW or that
\* captures the rook.
C4_BlackDrawHasDrawingMove ==
    pc = "done" =>
        \A fen \in DOMAIN tablebase :
            (fen[4] = BLACK /\ ValueOf(fen) = DRAW) =>
                \E m \in LegalMoves(BoardOf(fen)) :
                    m[2] = fen[2] \/ ReachesStoredDraw(BoardOf(fen), m)

\* C4 amended: after generation, every Black-to-move position stored as DRAW
\* that has at least one legal move (is not a stalemate) has a legal move that
\* leads to a successor stored as DRAW or that captures the rook.
C4_BlackDrawWithMovesHasDrawingMove ==
    pc = "done" =>
        \A fen \in DOMAIN tablebase :
            (fen[4] = BLACK /\ ValueOf(fen) = DRAW /\ LegalMoves(BoardOf(fen)) # {}) =>
                \E m \in LegalMoves(BoardOf(fen)) :
                    m[2] = fen[2] \/ ReachesStoredDraw(BoardOf(fen), m)

\* Generation is over and the store holds a Black-to-move DRAW entry that is
\* no stalemate, one reached by a quiet move into a DRAW successor and one
\* whose king can take the rook.
C4_Witness ==
    /\ pc = "done"
    /\ \E fen \in DOMAIN tablebase :
          /\ fen[4] = BLACK /\ ValueOf(fen) = DRAW
          /\ \E m \in LegalMoves(BoardOf(fen)) :
                m[2] # fen[2] /\ ReachesStoredDraw(BoardOf(fen), m)
    /\ \E fen \in RookCapturePositions : Stored(fen) /\ ValueOf(fen) = DRAW

\* C5: after the passes, every White-to-move position with a legal move that
\* delivers checkmate (a move into a position valued MATE(0)) is stored as
\* MATE(1) together with a move that delivers checkmate.
C5_MateInOneLabelled ==
    pc = "done" =>
        \A fen \in MateInOnePositions :
            /\ Stored(fen)
            /\ ValueOf(fen) = 1
            /\ MoveOf(fen) # None
            /\ FromUci(MoveOf(fen)) \in LegalMoves(BoardOf(fen))
            /\ DeliversMate(BoardOf(fen), FromUci(MoveOf(fen)))

\* C6: the key computed for the position a legal move reaches from the
\* position being scanned is the key under which the enumerator stores that
\* placement and side to move (halfmove clock 0, fullmove number 1).
C6_SuccessorKeyIsEnumeratorKey ==
    pc = "scan" =>
        \A m \in LegalMoves(BoardOf(all_positions[idx])) :
            LET after == Push(BoardOf(all_positions[idx]), m)
            IN  ThreePieces(after) => Fen(after) = CanonicalKey(after)

\* C7: once the terminal positions are labelled, an enumerated position whose
\* side to move has no legal move is stored as (MATE(0), no move) iff the side
\* to move is in check and as (DRAW, no move) iff it is not; and between the
\* passes and when generation is over every entry of value MATE(0) is a
\* checkmate position.
C7_TerminalClassification ==
    /\ pc \notin {"checkmates", "stalemates"} =>
          \A fen \in TerminalPositions :
              /\ (Stored(fen) /\ tablebase[fen] = <<0, None>>)
                     <=> fen \in CheckmatePositions
              /\ (Stored(fen) /\ tablebase[fen] = <<DRAW, None>>)
                     <=> fen \in StalematePositions
    /\ pc \in {"while", "done"} =>
          \A fen \in DOMAIN tablebase :
              ValueOf(fen) = 0 => fen \in CheckmatePositions

\* Generation is over and the store holds a checkmate as (MATE(0), no move)
\* and a stalemate as (DRAW, no move).
C7_Witness ==
    /\ pc = "done"
    /\ \E fen \in CheckmatePositions : Stored(fen) /\ tablebase[fen] = <<0, None>>
    /\ \E fen \in StalematePositions : Stored(fen) /\ tablebase[fen] = <<DRAW, None>>

\* C8: a Black-to-move position in which the king can legally capture the
\* rook never has a value MATE(d) in the store, and is stored as DRAW when
\* generation is over.
C8_RookCaptureIsDraw ==
    \A fen \in RookCapturePositions :
        /\ Stored(fen) => ValueOf(fen) = DRAW
        /\ pc = "done" => Stored(fen)

\* Generation is over and a position in which the black king is in check and
\* can take the checking rook is stored as DRAW.
C8_Witness ==
    /\ pc = "done"
    /\ \E fen \in RookCapturePositions :
          IsCheck(BoardOf(fen)) /\ Stored(fen) /\ ValueOf(fen) = DRAW

\* C9: when generation is over the keys of the store are exactly the
\* enumerated positions, and each step of the final loop stores a position
\* that the passes left without an entry as (DRAW, no move).
C9_StoreCoversEnumeration ==
    /\ [](pc = "done" => DOMAIN tablebase = PositionSet)
    /\ [][(pc = "fill" /\ ~Stored(all_positions[idx])) =>
             /\ DOMAIN tablebase' = DOMAIN tablebase \cup {all_positions[idx]}
             /\ tablebase'[all_positions[idx]] = <<DRAW, None>>]_vars

\* Generation is over, every enumerated position has an entry, and a position
\* that is no terminal position (one the final loop filled) is stored as DRAW.
C9_Witness ==
    /\ pc = "done"
    /\ DOMAIN tablebase = PositionSet
    /\ \E fen \in PositionSet \ TerminalPositions :
          Stored(fen) /\ tablebase[fen] = <<DRAW, None>>

\* C10: in every state of the store, an entry carries a best move iff its
\* value is MATE(d) with d > 0.
C10_MoveIffPositiveMate ==
    tablebase \in [DOMAIN tablebase -> MoveIffPositiveMateEntries]

\* The passes are running and the store holds entries of value MATE(0) and of
\* value DRAW, none with a move.
C10_Witness ==
    /\ pc = "scan"
    /\ \E fen \in DOMAIN tablebase : tablebase[fen] = <<0, None>>
    /\ \E fen \in DOMAIN tablebase : tablebase[fen] = <<DRAW, None>>

\* C11: during generation no step changes or removes an entry the store
\* already holds (terminal labelling, the passes and the final DRAW fill only
\* add entries for positions that have none), and a step writes at most one
\* position; so each position is written at most once.
C11_MonotoneSaturation ==
    [][/\ (tablebase @@ tablebase') = tablebase'
       /\ Cardinality(DOMAIN tablebase') <= Cardinality(DOMAIN tablebase) + 1]_vars

\* Generation is over: the entries written by the terminal labelling are still
\* there with their values after the pass and the final loop, which filled the
\* other positions.
C11_Witness ==
    /\ pc = "done"
    /\ CheckmatePositions # {} /\ StalematePositions # {}
    /\ \A fen \in CheckmatePositions : Stored(fen) /\ tablebase[fen] = <<0, None>>
    /\ \A fen \in StalematePositions : Stored(fen) /\ tablebase[fen] = <<DRAW, None>>
    /\ DOMAIN tablebase # TerminalPositions

\* Some entry of the store has value MATE(d).
PassLabelled(d) == \E fen \in DOMAIN tablebase : ValueOf(fen) = d

\* A natural number that bounds the steps the induction loop can still take:
\* the passes left up to MaxDtm, each of at most NumPositions positions.
LoopVariant ==
    (MaxDtm - current_dtm) * (NumPositions + 2)
        + (IF pc = "scan" THEN NumPositions - idx + 1 ELSE 0)

\* C12: the induction loop terminates. Every step of the loop either leaves
\* it or makes the natural number LoopVariant smaller, so the loop cannot run
\* for ever; when it is left at most MaxDtm passes have run, every pass
\* before the last one labelled a position and the last one labelled none
\* unless it was pass MaxDtm; and in the final store no value MATE(d) exceeds
\* MaxDtm and below every stored MATE(d) each of MATE(0) .. MATE(d - 1) is
\* stored too.
C12_InductionLoopTerminates ==
    /\ [][(pc \in {"while", "scan"}) =>
            ((pc' \in {"while", "scan"} /\ LoopVariant' \in 0 .. LoopVariant - 1)
                \/ pc' = "fill")]_vars
    /\ []((pc = "fill" /\ idx = 1) =>
            /\ current_dtm \in 1 .. MaxDtm
            /\ \A d \in 1 .. current_dtm - 1 : PassLabelled(d)
            /\ current_dtm = MaxDtm \/ ~PassLabelled(current_dtm))
    /\ [](pc = "done" =>
            /\ \A fen \in DOMAIN tablebase : ValueOf(fen) <= MaxDtm
            /\ \A d \in 1 .. MaxDtm : PassLabelled(d) => PassLabelled(d - 1))

\* The loop has just been left after its first pass, which labelled no position.
C12_Witness ==
    /\ pc = "fill" /\ idx = 1
    /\ current_dtm = 1
    /\ ~positions_found_last_iteration
    /\ ~PassLabelled(1) /\ PassLabelled(0)

\* The keys ChessEngine.generate_all_krk_positions emits.
KrkPositionSet ==
    {generate_all_krk_positions[i] : i \in 1 .. Len(generate_all_krk_positions)}

\* The keys of the tuples (wk, wr, bk, stm) with three distinct squares and
\* kings that are not adjacent, for both sides to move.
StaticLegalKeys ==
    {Fen(NewBoard(wk, wr, bk, stm)) :
        <<wk, wr, bk, stm>> \in
            {t \in Squares \X Squares \X Squares \X {WHITE, BLACK} :
                /\ t[1] # t[2] /\ t[1] # t[3] /\ t[2] # t[3]
                /\ ~KingsAdjacent(t[1], t[3])}}

\* White-to-move keys in which the black king stands on a square the rook
\* attacks.
WhiteToMoveBlackKingAttacked ==
    {fen \in StaticLegalKeys :
        fen[4] = WHITE /\ IsAttackedBy(BoardOf(fen), WHITE, fen[3])}

\* The enumerator of the generator emits exactly the static-legal tuples, each
\* once.
FixedEnumeratorEmitsStaticLegal ==
    /\ PositionSet = StaticLegalKeys
    /\ Cardinality(PositionSet) = NumPositions

\* C13: every enumerator emits exactly the tuples with three distinct squares
\* and kings that are not adjacent, for both sides to move, White-to-move
\* positions with the black king on a square the rook attacks included; so
\* the position the generator has at hand is such a tuple, and the list of
\* the generator and the list of ChessEngine are both the set of these tuples.
C13_EnumeratorsEmitStaticLegalTuples ==
    /\ all_positions[idx] \in StaticLegalKeys
    /\ FixedEnumeratorEmitsStaticLegal
    /\ KrkPositionSet = StaticLegalKeys
    /\ WhiteToMoveBlackKingAttacked \subseteq KrkPositionSet

\* What ChessEngine.generate_all_krk_positions emits instead: the static-legal
\* tuples without the White-to-move ones whose black king is attacked.
KrkEnumeratorOmitsAttackedBlackKing ==
    /\ all_positions[idx] \in StaticLegalKeys
    /\ KrkPositionSet = StaticLegalKeys \ WhiteToMoveBlackKingAttacked
    /\ WhiteToMoveBlackKingAttacked # {}

----------------------------------------------------------------------------
(* Properties of the artifact *)

C18_ArtifactNeverPartial ==
    /\ file.exists => CanUnpickle(file.data)
    /\ reader # "error"

\* While generation runs, and after an interruption of generation, there is
\* no file at the artifact path; the file changes only once the store holds
\* every enumerated position.
ArtifactOnlyAfterGeneration ==
    /\ []((pc \in GenerationPhases \/ (pc = "exit" /\ interrupt \in GenerationPhases))
            => ~file.exists)
    /\ [][file' # file =>
            (pc \in {"done", "dump"} /\ DOMAIN tablebase = PositionSet)]_vars

\* C19: construction is all or nothing: the artifact is written only after
\* generation has run to completion, an interrupted generation writes
\* nothing to the artifact path, and an interruption never takes effect in
\* the middle of a pass.
C19_ConstructionAllOrNothing ==
    /\ ArtifactOnlyAfterGeneration
    /\ [](pc = "exit" => interrupt # "scan")

\* C20: loading an artifact that is missing, that cannot be unpickled or
\* that another version wrote fails and leaves the store of the loading
\* generator as it was.
C20_UnusableArtifactIsRejected ==
    (/\ pc \in {"tested", "load_failed"}
     /\ (~file.exists \/ ~CanUnpickle(file.data) \/ file.writer # "fixed"))
        => (pc = "load_failed" /\ test_tablebase = EmptyStore)

\* What the code does with such artifacts: a stream that cannot be unpickled
\* is rejected, every stream that can is installed whoever wrote it.
LoadInstallsWhateverUnpickles ==
    /\ pc = "load_failed" => (~CanUnpickle(file.data) /\ test_tablebase = EmptyStore)
    /\ pc = "tested" => (CanUnpickle(file.data) /\ DOMAIN test_tablebase = PositionSet)

----------------------------------------------------------------------------
(* Properties of the solver window *)

\* The position on the board of the window is stored as MATE(d), d >= 0.
BoardStoredAsMate ==
    /\ Fen(gui_board) \in DOMAIN tablebase
    /\ IsMateValue(ValueOf(Fen(gui_board)))

C15_QueryOutsideDomainNotInStore ==
    (pc = "solver" /\ ~setup_mode /\ Fen(gui_board) \notin StaticLegalKeys)
        => query(tablebase, Fen(gui_board)) = <<NoDtm, None>>

\* Solve mode over the store main generated, on a board with its three
\* pieces and adjacent kings, which the query does not find.
C15_Witness ==
    /\ pc = "solver" /\ ~setup_mode
    /\ file.writer = "fixed"
    /\ ThreePieces(gui_board)
    /\ KingsAdjacent(gui_board.wk, gui_board.bk)
    /\ gui_board.halfmove_clock = 0 /\ gui_board.fullmove_number = 1
    /\ DOMAIN tablebase = PositionSet
    /\ query(tablebase, Fen(gui_board)) = <<NoDtm, None>>

\* C16: once the solver has loaded the store, no event of the window
\* (click, piece selection, turn toggle, space, auto-play toggle and tick,
\* undo, reset, setup mode) changes the store or the artifact, and none
\* starts a generation.
C16_StoreReadOnlyUnderEvents ==
    [][(pc = "solver") =>
         (tablebase' = tablebase /\ file' = file /\ pc' = "solver")]_vars

\* A move has been played from the store and the position it led to has
\* been queried and not found, with the store still whole.
C16_Witness ==
    /\ pc = "solver" /\ ~setup_mode
    /\ move_stack # <<>>
    /\ ~auto_play
    /\ Fen(gui_board) \notin DOMAIN tablebase
    /\ DOMAIN tablebase = PositionSet
    /\ tablebase = PickleLoad(file.data)

----------------------------------------------------------------------------
(* The corner position 7k/6R1/7K/8/8/8/8/8 b - - 0 1 *)

\* Black king in the corner h8, white rook diagonally next to it on g7, white
\* king two ranks below the black king on h6, Black to move.
CornerPosition ==
    Fen(NewBoard(NumSquares - 1 - 2 * BoardSize, NumSquares - 2 - BoardSize,
                 NumSquares - 1, BLACK))

\* C23 as stated: the corner position is a checkmate (Black has no legal
\* move and is in check) and the generated store holds it as MATE(0) with
\* no move.
C23_CornerIsCheckmate ==
    pc = "done" =>
        /\ LegalMoves(BoardOf(CornerPosition)) = {}
        /\ IsCheck(BoardOf(CornerPosition))
        /\ IsCheckmate(BoardOf(CornerPosition))
        /\ Stored(CornerPosition)
        /\ tablebase[CornerPosition] = <<0, None>>

\* C23: the corner position is a stalemate: Black has no legal move and is
\* not in check (the rook does not attack the square diagonally next to it);
\* once the terminal positions are labelled the store holds it as DRAW with
\* no move.
C23_CornerIsStalemate ==
    /\ LegalMoves(BoardOf(CornerPosition)) = {}
    /\ ~IsCheck(BoardOf(CornerPosition))
    /\ IsStalemate(BoardOf(CornerPosition))
    /\ pc \notin {"checkmates", "stalemates"} =>
          (Stored(CornerPosition) /\ tablebase[CornerPosition] = <<DRAW, None>>)

\* Generation is over and the corner position is in the store as DRAW.
C23_Witness ==
    /\ pc = "done"
    /\ CornerPosition \in StalematePositions
    /\ Stored(CornerPosition)
    /\ tablebase[CornerPosition] = <<DRAW, None>>

----------------------------------------------------------------------------
(* Parity of the stored distances *)

\* White to move with an odd distance, Black to move with an even one.
ParityMatches(turn, d) == IF turn = WHITE THEN d % 2 = 1 ELSE d % 2 = 0

\* C27: between the passes and when generation is over every entry valued
\* MATE(d) has odd d if White is to move and even d if Black is to move; and
\* every step of generation that writes an entry valued MATE(d) writes one of
\* matching parity, a step of pass number current_dtm writing d = current_dtm
\* (so odd passes label White-to-move positions only, even passes
\* Black-to-move positions only).
C27_ParityInvariant ==
    /\ [](pc \in {"while", "done"} =>
            \A fen \in DOMAIN tablebase :
                IsMateValue(ValueOf(fen)) => ParityMatches(fen[4], ValueOf(fen)))
    /\ [][LET fen == all_positions[idx]
          IN  (/\ fen \in DOMAIN tablebase'
               /\ fen \notin DOMAIN tablebase
               /\ IsMateValue(tablebase'[fen][1])) =>
                 /\ ParityMatches(fen[4], tablebase'[fen][1])
                 /\ pc = "scan" => tablebase'[fen][1] = current_dtm]_vars

\* Generation is over; the entries valued MATE(d) are the checkmates, all of
\* them Black to move with d = 0.
C27_Witness ==
    /\ pc = "done"
    /\ CheckmatePositions # {}
    /\ \A fen \in CheckmatePositions :
          fen[4] = BLACK /\ Stored(fen) /\ ValueOf(fen) = 0
    /\ \A fen \in PositionSet \ CheckmatePositions :
          Stored(fen) /\ ValueOf(fen) = DRAW

----------------------------------------------------------------------------
(* The store of the optimized generator *)

\* C26: the store the optimized generator saves is not the store of the
\* retrograde rule: there is an enumerated position, White to move with a
\* move that delivers checkmate, whose value by the rule is MATE(1) and to
\* which the optimized generator assigns another value.
C26_OptimizedStoreNotConformant ==
    (pc = "tested" /\ file.writer = "optimized") =>
        \E fen \in MateInOnePositions :
            fen \in DOMAIN test_tablebase /\ test_tablebase[fen][1] # 1

\* The artifact of the optimized generator has been loaded and holds a
\* mate-in-one position as DRAW with no move.
C26_Witness ==
    /\ pc = "tested"
    /\ file.writer = "optimized"
    /\ test_tablebase = generate_tablebase_simple
    /\ \E fen \in MateInOnePositions : test_tablebase[fen] = <<DRAW, None>>

----------------------------------------------------------------------------
(* Modes of the solver window *)

\* C30: in the solver window auto-play is never on in setup mode; in solve
\* mode the board changes only by a legal move being pushed, by a move being
\* popped, or by the reset that returns to setup mode (no piece is placed or
\* removed and the turn is not toggled); and when auto-play is on and
\* play_best_move has no move to play, the tick switches auto-play off (every
\* step that leaves the board as it is does).
C30_AutoPlayOnlyInSolveMode ==
    /\ [](pc = "solver" => ~(auto_play /\ setup_mode))
    /\ [][(pc = "solver" /\ ~setup_mode /\ gui_board' # gui_board) =>
            \/ /\ move_stack' = Append(move_stack, gui_board)
               /\ \E m \in LegalMoves(gui_board) : gui_board' = Push(gui_board, m)
            \/ move_stack = Append(move_stack', gui_board')
            \/ setup_mode' /\ gui_board' = DefaultBoard /\ move_stack' = <<>>]_vars
    /\ [][(/\ pc = "solver" /\ auto_play /\ ~setup_mode
           /\ ~CanPlayBestMove(tablebase, gui_board)
           /\ gui_board' = gui_board) => ~auto_play']_vars

\* Solve mode with auto-play on, after a move has been played, on a board
\* for which play_best_move has no move: the next tick switches auto-play off.
C30_Witness ==
    /\ pc = "solver" /\ ~setup_mode
    /\ auto_play
    /\ Len(move_stack) = 1
    /\ ~CanPlayBestMove(tablebase, gui_board)

----------------------------------------------------------------------------
(* ChessEngine (chess_engine.py)                                             *)

\* The most half-moves played on one board.
MaxPlies == 2

\* What ChessEngine and ChessGUI leave alone.
outsidePlay ==
    <<tablebase, pc, idx, current_dtm, positions_found_last_iteration,
      file, test_tablebase, interrupt, reader, solverVars, waveVars>>

\* chess.parse_square: the name of a square, its file (a = 0) and its rank
\* (from 1), to the index of the square.
ParseSquare(name) == (name[2] - 1) * BoardSize + name[1]

\* chess.square(col, 7 - row): the square of a row and a column of the window.
SquareOfRowCol(row, col) == (BoardSize - 1 - row) * BoardSize + col

\* (7 - chess.square_rank(square), chess.square_file(square))
RowColOf(square) == <<BoardSize - 1 - Rank(square), File(square)>>

\* board.set_piece_at(square, piece): the piece replaces what stands there.
SetPieceAt(b, piece, square) ==
    [[b EXCEPT !.wk = IF @ = square THEN NoSquare ELSE @,
               !.wr = IF @ = square THEN NoSquare ELSE @,
               !.bk = IF @ = square THEN NoSquare ELSE @]
        EXCEPT ![piece] = square]

\* board.clear(), the three set_piece_at in the order of the code, and
\* board.turn = chess.WHITE.
KrkBoard(wk_sq, wr_sq, bk_sq) ==
    [SetPieceAt(SetPieceAt(SetPieceAt(EmptyBoard, "wk", ParseSquare(wk_sq)),
                           "wr", ParseSquare(wr_sq)),
                "bk", ParseSquare(bk_sq))
        EXCEPT !.turn = WHITE]

\* chess.Board(fen_string) raises no ValueError: the side to move is w or b
\* and neither counter is negative.
CanParseFen(fen) ==
    /\ fen[4] \in {WHITE, BLACK}
    /\ fen[5] >= 0
    /\ fen[6] >= 0

\* chess.Board(fen_string): a fullmove number of 0 is read as 1.
ParseFen(fen) ==
    [wk |-> fen[1], wr |-> fen[2], bk |-> fen[3], turn |-> fen[4],
     halfmove_clock |-> fen[5],
     fullmove_number |-> IF fen[6] < 1 THEN 1 ELSE fen[6]]

\* The moves on the board's move stack, oldest first.
StackMoves == [i \in 1 .. Len(engine_stack) |-> engine_stack[i].move]

Call(op, args, value) == [op |-> op, args |-> args, value |-> value]

\* ChessEngine.setup_krk_endgame
setup_krk_endgame(wk_sq, wr_sq, bk_sq) ==
    /\ engine_board' = KrkBoard(wk_sq, wr_sq, bk_sq)
    /\ engine_stack' = <<>>
    /\ move_history' = <<>>
    /\ last_call' = Call("setup_krk_endgame", <<wk_sq, wr_sq, bk_sq>>, "None")

\* ChessEngine.load_fen: a string the library cannot parse changes nothing.
load_fen(fen_string) ==
    IF CanParseFen(fen_string)
    THEN /\ engine_board' = ParseFen(fen_string)
         /\ engine_stack' = <<>>
         /\ move_history' = <<>>
         /\ last_call' = Call("load_fen", fen_string, "True")
    ELSE /\ UNCHANGED <<engine_board, engine_stack, move_history>>
         /\ last_call' = Call("load_fen", fen_string, "False")

\* A make_move that appends to move_history before it tests the move.
make_move_appends_first(from_row, from_col, to_row, to_col) ==
    LET move == <<SquareOfRowCol(from_row, from_col),
                  SquareOfRowCol(to_row, to_col)>>
    IN  /\ move_history' = Append(move_history, move)
        /\ IF move \in LegalMoves(engine_board)
           THEN /\ engine_stack' =
                     Append(engine_stack, [move |-> move, board |-> engine_board])
                /\ engine_board' = Push(engine_board, move)
                /\ last_call' =
                     Call("make_move", <<from_row, from_col, to_row, to_col>>, "True")
           ELSE /\ UNCHANGED <<engine_board, engine_stack>>
                /\ last_call' =
                     Call("make_move", <<from_row, from_col, to_row, to_col>>, "False")

\* ChessEngine.make_move
make_move(from_row, from_col, to_row, to_col) ==
    LET move == <<SquareOfRowCol(from_row, from_col),
                  SquareOfRowCol(to_row, to_col)>>
    IN  IF move \in LegalMoves(engine_board)
        THEN /\ move_history' = Append(move_history, move)
             /\ engine_stack' =
                  Append(engine_stack, [move |-> move, board |-> engine_board])
             /\ engine_board' = Push(engine_board, move)
             /\ last_call' =
                  Call("make_move", <<from_row, from_col, to_row, to_col>>, "True")
        ELSE /\ UNCHANGED <<engine_board, engine_stack, move_history>>
             /\ last_call' =
                  Call("make_move", <<from_row, from_col, to_row, to_col>>, "False")

\* The bound on the moves played lets this call through.
PliesLeft(from_row, from_col, to_row, to_col) ==
    \/ Len(engine_stack) < MaxPlies
    \/ <<SquareOfRowCol(from_row, from_col), SquareOfRowCol(to_row, to_col)>>
          \notin LegalMoves(engine_board)

\* An undo_move that pops the board whatever move_history holds.
undo_move_pops_always ==
    IF engine_stack # <<>>
    THEN /\ engine_board' = engine_stack[Len(engine_stack)].board
         /\ engine_stack' = SubSeq(engine_stack, 1, Len(engine_stack) - 1)
         /\ move_history' = move_history
         /\ last_call' = Call("undo_move", <<>>, "True")
    ELSE /\ UNCHANGED <<engine_board, engine_stack, move_history>>
         /\ last_call' = Call("undo_move", <<>>, "False")

\* ChessEngine.undo_move: board.pop() restores the board the last move was
\* pushed on, and raises IndexError on an empty move stack before anything
\* has changed.
undo_move ==
    IF move_history # <<>>
    THEN IF engine_stack # <<>>
         THEN /\ engine_board' = engine_stack[Len(engine_stack)].board
              /\ engine_stack' = SubSeq(engine_stack, 1, Len(engine_stack) - 1)
              /\ move_history' = SubSeq(move_history, 1, Len(move_history) - 1)
              /\ last_call' = Call("undo_move", <<>>, "True")
         ELSE /\ UNCHANGED <<engine_board, engine_stack, move_history>>
              /\ last_call' = Call("undo_move", <<>>, "IndexError")
    ELSE /\ UNCHANGED <<engine_board, engine_stack, move_history>>
         /\ last_call' = Call("undo_move", <<>>, "False")

\* The names of the squares of the default position: e1, a1, e8.
DefaultSquares ==
    <<<<BoardSize \div 2, 1>>, <<0, 1>>, <<BoardSize \div 2, BoardSize>>>>

\* Arguments a caller passes to setup_krk_endgame: the default, a position
\* of the enumeration, kings side by side, and squares named twice.
SetupArguments ==
    {DefaultSquares,
     <<<<0, 1>>, <<1, 1>>, <<BoardSize - 1, BoardSize>>>>,
     <<<<0, 1>>, <<BoardSize - 1, BoardSize>>, <<1, 2>>>>,
     <<<<0, 1>>, <<0, 1>>, <<BoardSize - 1, BoardSize>>>>,
     <<<<0, 1>>, <<1, 1>>, <<1, 1>>>>}

\* Strings a caller passes to load_fen: positions with either side to move
\* and with counters that have run, kings side by side, a side to move that
\* is no colour, and a negative clock.
FenArguments ==
    {<<0, 1, NumSquares - 1, WHITE, 0, 1>>,
     <<0, 1, NumSquares - 1, BLACK, 3, 0>>,
     <<0, NumSquares - 1, BoardSize + 1, BLACK, 0, 1>>,
     <<0, 1, NumSquares - 1, "x", 0, 1>>,
     <<0, 1, NumSquares - 1, WHITE, -1, 1>>}

Rows == 0 .. (BoardSize - 1)

SetupKrkEndgame ==
    /\ pc = "engine"
    /\ \E a \in SetupArguments : setup_krk_endgame(a[1], a[2], a[3])
    /\ UNCHANGED <<selected_square, legal_moves, outsidePlay>>

LoadFen ==
    /\ pc = "engine"
    /\ \E fen_string \in FenArguments : load_fen(fen_string)
    /\ UNCHANGED <<selected_square, legal_moves, outsidePlay>>

MakeMove ==
    /\ pc = "engine"
    /\ \E from_row \in Rows, from_col \in Rows, to_row \in Rows, to_col \in Rows :
          /\ PliesLeft(from_row, from_col, to_row, to_col)
          /\ make_move(from_row, from_col, to_row, to_col)
    /\ UNCHANGED <<selected_square, legal_moves, outsidePlay>>

UndoMove ==
    /\ pc = "engine"
    /\ undo_move
    /\ UNCHANGED <<selected_square, legal_moves, outsidePlay>>

\* A ChessEngine after __init__.
EngineInit ==
    /\ tablebase = EmptyStore
    /\ pc = "engine"
    /\ idx = 1
    /\ current_dtm = 0
    /\ positions_found_last_iteration = TRUE
    /\ file = Missing
    /\ test_tablebase = EmptyStore
    /\ interrupt = "none"
    /\ reader = "idle"
    /\ SolverIdle
    /\ WaveIdle
    /\ EngineIdle

EngineNext ==
    \/ SetupKrkEndgame
    \/ LoadFen
    \/ MakeMove
    \/ UndoMove

EngineSpec == EngineInit /\ [][EngineNext]_vars

----------------------------------------------------------------------------
(* Properties of ChessEngine *)

\* The move a make_move call names.
MoveOfCall(call) ==
    <<SquareOfRowCol(call.args[1], call.args[2]),
      SquareOfRowCol(call.args[3], call.args[4])>>

\* Invariants 1 to 3 of a position: three pieces on three squares, the kings
\* not adjacent, and with White to move the white king not attacked.
IsValidPosition(b) ==
    /\ ThreePieces(b)
    /\ b.wk # b.wr /\ b.wk # b.bk /\ b.wr # b.bk
    /\ ~KingsAdjacent(b.wk, b.bk)
    /\ b.turn = WHITE => ~IsAttackedBy(b, BLACK, b.wk)

\* The squares named in a call of setup_krk_endgame are three squares, and
\* the kings named are not adjacent.
IsValidSetup(args) ==
    /\ args[1] # args[2] /\ args[1] # args[3] /\ args[2] # args[3]
    /\ ~KingsAdjacent(ParseSquare(args[1]), ParseSquare(args[3]))

\* C21: a make_move whose move is not a legal move of the current position
\* returns False and leaves the board (placement, side to move, counters),
\* the board's move stack and move_history as they were.
C21_IllegalMoveRejected ==
    [][(pc = "engine" /\ last_call'.op = "make_move"
          /\ MoveOfCall(last_call') \notin LegalMoves(engine_board))
       => /\ last_call'.value = "False"
          /\ engine_board' = engine_board
          /\ engine_stack' = engine_stack
          /\ move_history' = move_history]_vars

\* A king's step onto an attacked square was refused on a board with moves
\* played.
C21_Witness ==
    /\ pc = "engine"
    /\ last_call.op = "make_move" /\ last_call.value = "False"
    /\ ThreePieces(engine_board)
    /\ move_history # <<>>
    /\ MoveOfCall(last_call) \in
          PseudoLegalMoves(engine_board) \ LegalMoves(engine_board)

\* C22: a position with two pieces named on one square or with adjacent
\* kings is rejected at setup: after setup_krk_endgame the board is the
\* position asked for only if that position is valid, and the solver window
\* is in solve mode only on a valid position.
C22_InvalidPositionRejected ==
    /\ (pc = "engine" /\ last_call.op = "setup_krk_endgame")
          => (IsValidSetup(last_call.args) /\ IsValidPosition(engine_board))
    /\ (pc = "solver" /\ ~setup_mode /\ move_stack = <<>>)
          => IsValidPosition(gui_board)

\* C28: move_history is the board's move stack after every sequence of
\* calls; a successful make_move records the board it was made on as what
\* undo_move restores, a successful undo_move restores a board on which the
\* undone move was legal and led to the board undone; undo_move with an
\* empty history returns False and changes nothing.
C28_HistoryIsMoveStack ==
    /\ [](pc = "engine" => move_history = StackMoves)
    /\ [][(pc = "engine" /\ last_call'.op = "make_move"
             /\ last_call'.value = "True")
          => /\ move_history' = Append(move_history, MoveOfCall(last_call'))
             /\ engine_stack'[Len(engine_stack')].board = engine_board]_vars
    /\ [][(pc = "engine" /\ last_call'.op = "undo_move"
             /\ move_history # <<>>)
          => /\ last_call'.value = "True"
             /\ engine_board' = engine_stack[Len(engine_stack)].board
             /\ move_history[Len(move_history)] \in LegalMoves(engine_board')
             /\ Push(engine_board', move_history[Len(move_history)]) = engine_board
             /\ move_history' = SubSeq(move_history, 1, Len(move_history) - 1)]_vars
    /\ [][(pc = "engine" /\ last_call'.op = "undo_move"
             /\ move_history = <<>>)
          => /\ last_call'.value = "False"
             /\ engine_board' = engine_board
             /\ engine_stack' = engine_stack
             /\ move_history' = move_history]_vars

\* Two moves were played and the second was taken back.
C28_Witness ==
    /\ pc = "engine"
    /\ last_call.op = "undo_move" /\ last_call.value = "True"
    /\ Len(move_history) = 1
    /\ move_history = StackMoves
    /\ ThreePieces(engine_board)
    /\ engine_board.turn = BLACK

----------------------------------------------------------------------------
(* ChessGUI (chess_UI.py)                                                    *)

\* 'white' if the colour is chess.WHITE else 'black'
ColorName(color) == IF color = WHITE THEN "white" ELSE "black"

\* ChessEngine.get_piece_at: the colour of the piece on the square of a row
\* and a column, or None.
get_piece_at(row, col) ==
    LET square == SquareOfRowCol(row, col)
    IN  IF square \in {engine_board.wk, engine_board.wr} THEN ColorName(WHITE)
        ELSE IF square = engine_board.bk THEN ColorName(BLACK)
        ELSE "None"

\* ChessEngine.get_legal_moves_from_square: the rows and columns the piece
\* on the square can legally move to.
get_legal_moves_from_square(row, col) ==
    {RowColOf(move[2]) :
        move \in {m \in LegalMoves(engine_board) : m[1] = SquareOfRowCol(row, col)}}

\* ChessGUI.handle_click on a square of the board: with a selection, the move
\* to a square of legal_moves is made and the selection is cleared; without
\* one, a piece of the side to move is selected.
handle_click(row, col) ==
    IF selected_square # None
    THEN /\ IF <<row, col>> \in legal_moves
            THEN /\ PliesLeft(selected_square[1], selected_square[2], row, col)
                 /\ make_move(selected_square[1], selected_square[2], row, col)
            ELSE UNCHANGED <<engine_board, engine_stack, move_history, last_call>>
         /\ selected_square' = None
         /\ legal_moves' = {}
    ELSE /\ IF get_piece_at(row, col) = ColorName(engine_board.turn)
            THEN /\ selected_square' = <<row, col>>
                 /\ legal_moves' = get_legal_moves_from_square(row, col)
            ELSE UNCHANGED <<selected_square, legal_moves>>
         /\ UNCHANGED <<engine_board, engine_stack, move_history, last_call>>

\* MOUSEBUTTONDOWN with the left button on the board.
Click ==
    /\ pc = "gui"
    /\ \E row \in Rows, col \in Rows : handle_click(row, col)
    /\ UNCHANGED outsidePlay

\* K_r, ChessGUI.reset_position
reset_position ==
    /\ pc = "gui"
    /\ setup_krk_endgame(DefaultSquares[1], DefaultSquares[2], DefaultSquares[3])
    /\ selected_square' = None
    /\ legal_moves' = {}
    /\ UNCHANGED outsidePlay

\* K_u: engine.undo_move(); the selection is left as it is.
KeyUndo ==
    /\ pc = "gui"
    /\ undo_move
    /\ UNCHANGED <<selected_square, legal_moves, outsidePlay>>

\* ChessGUI.__init__: a ChessEngine with the default position, no selection.
PlayInit ==
    /\ tablebase = EmptyStore
    /\ pc = "gui"
    /\ idx = 1
    /\ current_dtm = 0
    /\ positions_found_last_iteration = TRUE
    /\ file = Missing
    /\ test_tablebase = EmptyStore
    /\ interrupt = "none"
    /\ reader = "idle"
    /\ SolverIdle
    /\ WaveIdle
    /\ engine_board = KrkBoard(DefaultSquares[1], DefaultSquares[2], DefaultSquares[3])
    /\ engine_stack = <<>>
    /\ move_history = <<>>
    /\ last_call = Call("setup_krk_endgame", DefaultSquares, "None")
    /\ selected_square = None
    /\ legal_moves = {}

PlayNext ==
    \/ Click
    \/ reset_position
    \/ KeyUndo

PlaySpec == PlayInit /\ [][PlayNext]_vars

----------------------------------------------------------------------------
(* Properties of ChessGUI *)

\* The selected square holds a piece of the side to move and legal_moves is
\* the set of its legal destinations on the present board.
SelectionIsCurrent ==
    selected_square # None =>
        /\ get_piece_at(selected_square[1], selected_square[2])
              = ColorName(engine_board.turn)
        /\ legal_moves =
              get_legal_moves_from_square(selected_square[1], selected_square[2])

\* C29: in ChessGUI every move pushed on the board is a legal move of the
\* board it is pushed on, and whenever a square is selected it holds a piece
\* of the side to move and legal_moves is that piece's legal destinations in
\* the current position, under every interleaving of clicks, undo and reset.
C29_SelectionAndPushesLegal ==
    /\ [][(pc = "gui" /\ Len(engine_stack') > Len(engine_stack))
          => /\ engine_stack'[Len(engine_stack')].move \in LegalMoves(engine_board)
             /\ engine_board' =
                  Push(engine_board, engine_stack'[Len(engine_stack')].move)]_vars
    /\ [](pc = "gui" => SelectionIsCurrent)

----------------------------------------------------------------------------
(* tablebase_generator.py: test_tablebase, generate_krk_tablebase and        *)
(* _backward_induction as a state machine, run after main of                 *)
(* tablebase_generator_fixed.py has ended                                     *)

\* What the wave generator leaves alone.
outsideWave ==
    <<file, test_tablebase, interrupt, reader, solverVars, playVars>>

\* Orders in which a run iterates over a set of positions: the order of
\* the enumeration and its reverse.
ScanOrders == {"ascending", "descending"}

\* The i-th position of "for fen in positions" in the order of this run.
WaveItem(i) ==
    IF scan_order = "ascending"
    THEN all_positions[i]
    ELSE all_positions[NumPositions + 1 - i]

\* The positions of a set in the order of this run.
WaveSeq(positions) ==
    SelectSeq([i \in 1 .. NumPositions |-> WaveItem(i)],
              LAMBDA fen : fen \in positions)

\* TablebaseGenerator._find_predecessors: the positions with a legal move
\* after which board.fen() is the target's FEN.
find_predecessors(target_fen) ==
    {fen \in {all_positions[i] : i \in 1 .. NumPositions} :
        \E move \in LegalMoves(BoardOf(fen)) :
            Fen(Push(BoardOf(fen), move)) = target_fen}

\* TablebaseGenerator._has_forced_mate
has_forced_mate(store, board, dtm) ==
    IF board.turn = WHITE
    THEN \E move \in LegalMoves(board) :
            LET next_fen == Fen(Push(board, move))
            IN  next_fen \in DOMAIN store /\ store[next_fen][1] = dtm - 1
    ELSE /\ LegalMoves(board) # {}
         /\ \A move \in LegalMoves(board) :
               LET next_fen == Fen(Push(board, move))
               IN  /\ next_fen \in DOMAIN store
                   /\ ~(store[next_fen][1] = DRAW \/ store[next_fen][1] >= dtm)

\* TablebaseGenerator._find_best_move: the first legal move into a stored
\* successor of smallest dtm, or None.
find_best_move(store, board) ==
    WhiteBest(store, board, LegalMoveSeq(board), 1,
              [best_dtm |-> INF, best_move |-> None]).best_move

\* "for pred_fen in predecessors": a predecessor not known yet that has a
\* forced mate is stored with its best move, becomes known and joins
\* next_wave.
RECURSIVE LabelPredecessors(_, _, _, _)
LabelPredecessors(acc, preds, i, dtm) ==
    IF i > Len(preds) THEN acc
    ELSE LET pred_fen == preds[i]
             labels   == /\ pred_fen \notin acc.known
                         /\ has_forced_mate(acc.store, BoardOf(pred_fen), dtm)
         IN  LabelPredecessors(
                 IF labels
                 THEN [store |-> Put(acc.store, pred_fen,
                                     <<dtm, find_best_move(acc.store, BoardOf(pred_fen))>>),
                       known |-> acc.known \cup {pred_fen},
                       next  |-> acc.next \cup {pred_fen}]
                 ELSE acc,
                 preds, i + 1, dtm)

\* python tablebase_generator.py: a new TablebaseGenerator with an empty
\* store; the interpreter's iteration order over sets is fixed for the run.
WaveMain ==
    /\ pc = "tested"
    /\ pc' = "wave_checkmates"
    /\ tablebase' = EmptyStore
    /\ idx' = 1
    /\ current_dtm' = 0
    /\ scan_order' \in ScanOrders
    /\ checkmates' = {}
    /\ stalemates' = {}
    /\ known_positions' = {}
    /\ current_wave' = {}
    /\ next_wave' = {}
    /\ UNCHANGED positions_found_last_iteration
    /\ UNCHANGED outsideWave

\* A _find_checkmates that takes every check for a checkmate.
WaveFindCheckmateInCheckOnly ==
    /\ pc = "wave_checkmates"
    /\ IF IsCheck(BoardOf(WaveItem(idx)))
       THEN /\ checkmates' = checkmates \cup {WaveItem(idx)}
            /\ tablebase' = Put(tablebase, WaveItem(idx), <<0, None>>)
       ELSE UNCHANGED <<checkmates, tablebase>>
    /\ Advance("wave_stalemates")
    /\ UNCHANGED <<current_dtm, positions_found_last_iteration, stalemates,
                   known_positions, current_wave, next_wave, scan_order>>
    /\ UNCHANGED outsideWave

\* _find_checkmates, one position of its loop.
WaveFindCheckmate ==
    /\ pc = "wave_checkmates"
    /\ IF IsCheckmate(BoardOf(WaveItem(idx)))
       THEN /\ checkmates' = checkmates \cup {WaveItem(idx)}
            /\ tablebase' = Put(tablebase, WaveItem(idx), <<0, None>>)
       ELSE UNCHANGED <<checkmates, tablebase>>
    /\ Advance("wave_stalemates")
    /\ UNCHANGED <<current_dtm, positions_found_last_iteration, stalemates,
                   known_positions, current_wave, next_wave, scan_order>>
    /\ UNCHANGED outsideWave

\* _find_stalemates, one position of its loop.
WaveFindStalemate ==
    /\ pc = "wave_stalemates"
    /\ stalemates' = IF IsStalemate(BoardOf(WaveItem(idx)))
                     THEN stalemates \cup {WaveItem(idx)}
                     ELSE stalemates
    /\ Advance("wave_mark")
    /\ UNCHANGED <<tablebase, current_dtm, positions_found_last_iteration,
                   checkmates, known_positions, current_wave, next_wave,
                   scan_order>>
    /\ UNCHANGED outsideWave

\* "for fen in stalemates: self.tablebase[fen] = ('DRAW', None)", then the
\* head of _backward_induction: known_positions and the first wave.
WaveMarkStalemates ==
    /\ pc = "wave_mark"
    /\ tablebase' = [fen \in DOMAIN tablebase \cup stalemates |->
                        IF fen \in stalemates THEN <<DRAW, None>>
                        ELSE tablebase[fen]]
    /\ known_positions' = checkmates \cup DOMAIN tablebase'
    /\ current_wave' = checkmates
    /\ current_dtm' = 0
    /\ pc' = "wave_while"
    /\ UNCHANGED <<idx, positions_found_last_iteration, checkmates, stalemates,
                   next_wave, scan_order>>
    /\ UNCHANGED outsideWave

\* "while current_wave and current_dtm < 50": the next wave begins, or the
\* loop is left.
WavePassStart ==
    /\ pc = "wave_while"
    /\ IF current_wave # {} /\ current_dtm < MaxDtm
       THEN /\ next_wave' = {}
            /\ current_dtm' = current_dtm + 1
            /\ pc' = "wave_for"
       ELSE /\ pc' = "wave_fill"
            /\ UNCHANGED <<next_wave, current_dtm>>
    /\ idx' = 1
    /\ UNCHANGED <<tablebase, positions_found_last_iteration, checkmates,
                   stalemates, known_positions, current_wave, scan_order>>
    /\ UNCHANGED outsideWave

\* "for fen in current_wave": the predecessors of one position of the wave
\* are found and labelled; after the last one "current_wave = next_wave".
WaveProcess ==
    /\ pc = "wave_for"
    /\ LET wave   == WaveSeq(current_wave)
           preds  == WaveSeq(find_predecessors(wave[idx]))
           result == LabelPredecessors(
                         [store |-> tablebase, known |-> known_positions,
                          next |-> next_wave],
                         preds, 1, current_dtm)
       IN  /\ tablebase' = result.store
           /\ known_positions' = result.known
           /\ IF idx = Len(wave)
              THEN /\ current_wave' = result.next
                   /\ next_wave' = result.next
                   /\ idx' = 1
                   /\ pc' = "wave_while"
              ELSE /\ next_wave' = result.next
                   /\ idx' = idx + 1
                   /\ UNCHANGED <<current_wave, pc>>
    /\ UNCHANGED <<current_dtm, positions_found_last_iteration, checkmates,
                   stalemates, scan_order>>
    /\ UNCHANGED outsideWave

\* "Mark remaining positions as draws", one position of the loop.
WaveFillDraw ==
    /\ pc = "wave_fill"
    /\ tablebase' = IF WaveItem(idx) \notin DOMAIN tablebase
                    THEN Put(tablebase, WaveItem(idx), <<DRAW, None>>)
                    ELSE tablebase
    /\ Advance("wave_done")
    /\ UNCHANGED <<current_dtm, positions_found_last_iteration>>
    /\ UNCHANGED waveVars
    /\ UNCHANGED outsideWave

\* generator.save_tablebase(): the store goes to krk_tablebase.pkl, a file
\* of its own that no program of the repository reads.
WaveSave ==
    /\ pc = "wave_done"
    /\ pc' = "wave_saved"
    /\ UNCHANGED <<tablebase, idx, current_dtm, positions_found_last_iteration>>
    /\ UNCHANGED waveVars
    /\ UNCHANGED outsideWave

WaveNext ==
    \/ Next
    \/ WaveMain
    \/ WaveFindCheckmate
    \/ WaveFindStalemate
    \/ WaveMarkStalemates
    \/ WavePassStart
    \/ WaveProcess
    \/ WaveFillDraw
    \/ WaveSave

\* Both generators are run, the forward scan first.
WaveSpec == Init /\ [][WaveNext]_vars

----------------------------------------------------------------------------
(* The two inductions compared *)

====
